---- MODULE Spec2Model ----
(***************************************************************************)
(* The synchronisation pipeline of bimm_service: MakeDataLoader            *)
(* (src/src/entities/makeDataLoader.js) running against the MongoDBFacade  *)
(* (src/src/schemas/vehicleMake.js) under the scheduler of src/app.js.     *)
(*                                                                         *)
(* A JavaScript object is a TLA+ record whose DOMAIN is the set of the     *)
(* fields the object has: `delete make.vehicleTypes` removes the field     *)
(* from the DOMAIN, `{...a, vehicleTypes}` and Mongo's $set are a          *)
(* left-biased merge (@@).  The collection "vehicle_makes" is the sequence *)
(* of its documents in insertion order.  Every await of the code is a      *)
(* step of the model; the store operations (find, deleteOne, updateOne     *)
(* with upsert, bulkWrite) are taken as atomic operations of the database. *)
(***************************************************************************)
EXTENDS Integers, Sequences, FiniteSets, TLC

VARIABLES
    store,       \* the collection vehicle_makes: a sequence of documents
    remote,      \* the upstream source: [makes, types], unchanged by the service
    pc,          \* where the scheduled function stands
    cycles,      \* number of runs the scheduler starts in this behaviour
    run,         \* number of runs the scheduler has started
    allMakes,    \* startLoading: the list _loadAllMakes returned
    hasMakes,    \* FALSE when _extractMakeObjects returned undefined
    dbMakes,     \* _saveMakes: the snapshot read by db.find
    deleting,    \* _saveMakes: makeIds of the deleteOne calls not yet settled
    makesMap,    \* _loadAndSaveVehicleTypes: the makesMap of each run's call
    order,       \* _loadAndSaveVehicleTypes: the makes the loop has still to visit
    i,           \* _loadAndSaveVehicleTypes: the loop counter i
    promises,    \* _loadAndSaveVehicleTypes: the tasks of this run in the array promises
    ops,         \* the readAndSave() calls started, with their progress
    failures,    \* number of failures the environment has injected
    storeBefore, \* history: the store when the current run was triggered
    touched,     \* history: the current run has had a delete or an upsert settle
    shellsFailed,\* history: a store operation of this run's _saveMakes failed
    snapshots,   \* history: the store at each return of startLoading
    returned     \* history: what _loadAndSaveVehicleTypes returned in each run

vars == <<store, remote, pc, cycles, run, allMakes, hasMakes, dbMakes, deleting,
          makesMap, order, i, promises, ops, failures, storeBefore, touched,
          shellsFailed, snapshots, returned>>

----------------------------------------------------------------------------
(* Program constants *)

CONCURRENT_REQUESTS == 5

TEST_REQUESTS == -1

(* Bounds of the model *)

\* runs the scheduler starts in one behaviour
MaxCycles == 2

\* failures (fetch errors, store errors) injected in one behaviour
MaxFailures == 1

----------------------------------------------------------------------------
(* helpers.js *)

\* Object.keys of the map arrayToMap builds: the makeIds of the items
KeysOf(array) == {array[j].makeId : j \in 1..Len(array)}

\* arrayToMap(array, "makeId"): a later item overwrites an earlier one
arrayToMap(array) ==
    [id \in KeysOf(array) |->
        array[CHOOSE j \in 1..Len(array) :
                /\ array[j].makeId = id
                /\ \A l \in (j+1)..Len(array) : array[l].makeId # id]]

\* an arrayToMap that would take undefined for an empty array
arrayToMapTolerant(isArray) == FALSE

\* arrayToMap(undefined, key): array.forEach throws a TypeError
arrayToMapThrows(isArray) == ~isArray

\* mapToArray(mapObject): Object.values lists the values of integer keys
\* in ascending order of the key
mapToArray(mapObject) ==
    LET keys == DOMAIN mapObject
        rank(k) == Cardinality({x \in keys : x <= k})
    IN  [j \in 1..Cardinality(keys) |-> mapObject[CHOOSE k \in keys : rank(k) = j]]

\* new VehicleType(typeId, typeName)
VehicleType(typeId, typeName) == [typeId |-> typeId, typeName |-> typeName]

\* new VehicleMake(makeId, makeName): vehicleTypes defaults to []
VehicleMake(makeId, makeName) ==
    [makeId |-> makeId, makeName |-> makeName, vehicleTypes |-> <<>>]

\* one swap of shuffle: [array[a], array[b]] = [array[b], array[a]]
Swap(array, a, b) ==
    [array EXCEPT ![a] = array[b], ![b] = array[a]]

\* shuffle(array): the arrays the loop can leave, over every draw of
\* randomIndex in 0..currentIndex-1 (1-based here)
RECURSIVE shuffleFrom(_, _)
shuffleFrom(array, currentIndex) ==
    IF currentIndex = 0 THEN {array}
    ELSE UNION {shuffleFrom(Swap(array, currentIndex, randomIndex), currentIndex - 1) :
                    randomIndex \in 1..currentIndex}

\* a shuffle that draws with replacement: it repeats the first element
shuffleRepeating(array) == {[j \in 1..Len(array) |-> array[1]]}

shuffle(array) == shuffleFrom(array, Len(array))

----------------------------------------------------------------------------
(* xml2js with explicitArray: false, and the two extractors *)

\* What xml2js makes of a repeated child element: nothing when there is no
\* child, the child itself when there is one, an array when there are more.
Collapse(children) ==
    IF Len(children) = 0 THEN [kind |-> "absent", items |-> <<>>]
    ELSE IF Len(children) = 1 THEN [kind |-> "object", items |-> children]
    ELSE [kind |-> "array", items |-> children]

\* _xml2Json of a well-formed upstream document listing `children`
xml2Json(children) == [Count |-> Len(children), Results |-> Collapse(children)]

\* _extractMakeObjects: undefined when the list is absent, a TypeError when
\* AllVehicleMakes is a single object (it has no map), else the mapped list
extractMakeObjects(jsObject) ==
    IF jsObject.Results.kind = "absent" THEN [kind |-> "undefined", value |-> <<>>]
    ELSE IF jsObject.Results.kind = "object" THEN [kind |-> "throw", value |-> <<>>]
    ELSE [kind |-> "value",
          value |-> [j \in 1..Len(jsObject.Results.items) |->
                        VehicleMake(jsObject.Results.items[j].Make_ID,
                                    jsObject.Results.items[j].Make_Name)]]

\* an extractor without the count test: the single record is mapped over
extractVehicleTypeObjectsMapOnly(jsObject) ==
    IF jsObject.Results.kind = "absent" THEN [kind |-> "undefined", value |-> <<>>]
    ELSE IF jsObject.Results.kind = "object" THEN [kind |-> "throw", value |-> <<>>]
    ELSE [kind |-> "value",
          value |-> [j \in 1..Len(jsObject.Results.items) |->
                        VehicleType(jsObject.Results.items[j].VehicleTypeId,
                                    jsObject.Results.items[j].VehicleTypeName)]]

\* _extractVehicleTypeObjects
extractVehicleTypeObjects(jsObject) ==
    IF jsObject.Count = 0 THEN [kind |-> "value", value |-> <<>>]
    ELSE IF jsObject.Count = 1 THEN
        IF jsObject.Results.kind = "object"
        THEN [kind |-> "value",
              value |-> <<VehicleType(jsObject.Results.items[1].VehicleTypeId,
                                      jsObject.Results.items[1].VehicleTypeName)>>]
        ELSE [kind |-> "value", value |-> <<VehicleType("", "")>>]
    ELSE IF jsObject.Results.kind = "absent" THEN [kind |-> "undefined", value |-> <<>>]
    ELSE IF jsObject.Results.kind = "object" THEN [kind |-> "throw", value |-> <<>>]
    ELSE [kind |-> "value",
          value |-> [j \in 1..Len(jsObject.Results.items) |->
                        VehicleType(jsObject.Results.items[j].VehicleTypeId,
                                    jsObject.Results.items[j].VehicleTypeName)]]

----------------------------------------------------------------------------
(* MongoDBFacade: the operations on the collection *)

\* positions of the documents a {makeId: id} filter matches
Matches(coll, id) == {j \in 1..Len(coll) : coll[j].makeId = id}

First(S) == CHOOSE j \in S : \A l \in S : j <= l

\* a deleteOne that removes nothing
deleteNone(coll, id) == coll

\* collection.deleteOne({makeId: id}): removes the first match, if any
deleteOne(coll, id) ==
    IF Matches(coll, id) = {} THEN coll
    ELSE LET j == First(Matches(coll, id))
         IN  SubSeq(coll, 1, j - 1) \o SubSeq(coll, j + 1, Len(coll))

\* an update that replaces the collection by the document
updateOneReplaceAll(coll, document) == <<document>>

\* an insertOne in the place of the upsert
updateOneInsert(coll, document) == Append(coll, document)

\* collection.updateOne({makeId: document.makeId}, {$set: document},
\* {upsert: true}): $set overwrites the fields of document in the first
\* match and keeps the others; without a match the document is inserted
updateOneUpsert(coll, document) ==
    IF Matches(coll, document.makeId) = {} THEN Append(coll, document)
    ELSE LET j == First(Matches(coll, document.makeId))
         IN  [coll EXCEPT ![j] = document @@ coll[j]]

\* collection.bulkWrite(bulkOps), ordered: the first n operations applied
RECURSIVE bulkWrite(_, _, _)
bulkWrite(coll, documents, n) ==
    IF n = 0 THEN coll
    ELSE updateOneUpsert(bulkWrite(coll, documents, n - 1), documents[n])

----------------------------------------------------------------------------
(* The upstream source and the stored snapshots a behaviour starts from *)

TypeNames == <<"T1", "T2", "T3", "T4", "T5">>

\* a <VehicleTypesForMakeIds> element of the upstream document
RawType(n) == [VehicleTypeId |-> n, VehicleTypeName |-> TypeNames[n]]

\* an <AllVehicleMakes> element of the upstream document
RawMake(id, name) == [Make_ID |-> id, Make_Name |-> name]

\* a stored document whose types are the upstream types `ns`
Doc(id, name, ns) ==
    [makeId |-> id, makeName |-> name,
     vehicleTypes |-> [j \in 1..Len(ns) |-> VehicleType(ns[j], TypeNames[ns[j]])]]

NoTypes == [id \in 1..4 |-> <<>>]

\* store {A[T1], B[], D[T2]}, upstream {A, B, C} with A -> [], B -> [T3],
\* C -> [T4, T5]
ScenarioExample ==
    [store |-> <<Doc(1, "A", <<1>>), Doc(2, "B", <<>>), Doc(4, "D", <<2>>)>>,
     makes |-> <<RawMake(1, "A"), RawMake(2, "B"), RawMake(3, "C")>>,
     types |-> [NoTypes EXCEPT ![2] = <<RawType(3)>>,
                               ![3] = <<RawType(4), RawType(5)>>],
     cycles |-> 1]

\* the upstream list names makeId 1 twice, under two names
ScenarioDuplicate ==
    [store |-> <<Doc(1, "A", <<1>>)>>,
     makes |-> <<RawMake(1, "A"), RawMake(1, "A2")>>,
     types |-> [NoTypes EXCEPT ![1] = <<RawType(1), RawType(2)>>],
     cycles |-> MaxCycles]

\* an empty store and a list longer than one group of the type loader
ScenarioLong ==
    [store |-> <<>>,
     makes |-> [j \in 1..(CONCURRENT_REQUESTS + 2) |->
                    IF j = 1 THEN RawMake(2, "B") ELSE RawMake(1, "A")],
     types |-> [NoTypes EXCEPT ![1] = <<RawType(1)>>,
                               ![2] = <<RawType(3), RawType(4), RawType(5)>>],
     cycles |-> 1]

\* the upstream list has a single make: xml2js does not wrap it in an array
ScenarioSingle ==
    [store |-> <<Doc(1, "A", <<1>>), Doc(4, "D", <<2>>)>>,
     makes |-> <<RawMake(1, "A")>>,
     types |-> [NoTypes EXCEPT ![1] = <<RawType(1)>>],
     cycles |-> MaxCycles]

\* the upstream document has no make list
ScenarioNone ==
    [store |-> <<Doc(1, "A", <<1>>), Doc(4, "D", <<2>>)>>,
     makes |-> <<>>,
     types |-> NoTypes,
     cycles |-> MaxCycles]

Scenarios ==
    {ScenarioExample, ScenarioDuplicate, ScenarioLong, ScenarioSingle, ScenarioNone}

----------------------------------------------------------------------------
(* The scheduled function of app.js and MakeDataLoader *)

Init ==
    /\ \E s \in Scenarios :
          /\ store = s.store
          /\ remote = [makes |-> s.makes, types |-> s.types]
          /\ storeBefore = s.store
          /\ cycles = s.cycles
    /\ pc = "idle"
    /\ run = 0
    /\ allMakes = <<>>
    /\ hasMakes = TRUE
    /\ dbMakes = <<>>
    /\ deleting = <<>>
    /\ makesMap = <<>>
    /\ order = <<>>
    /\ i = 0
    /\ promises = {}
    /\ ops = {}
    /\ failures = 0
    /\ touched = FALSE
    /\ shellsFailed = FALSE
    /\ snapshots = <<>>
    /\ returned = <<>>

\* the locals of a run die with it
LocalsReset ==
    /\ allMakes' = <<>>
    /\ hasMakes' = TRUE
    /\ dbMakes' = <<>>
    /\ deleting' = <<>>
    /\ order' = <<>>
    /\ i' = 0
    /\ promises' = {}

\* startLoading rejects: scheduledFunction rejects with it and the
\* AsyncTask's error handler logs the error
Abort ==
    /\ pc' = "aborted"
    /\ LocalsReset

\* the environment may make an operation fail
CanFail == failures < MaxFailures

\* task.execute() at startup, then the SimpleIntervalJob: preventOverrun
\* starts a run only when the promise of the previous one has settled.  The
\* readAndSave() closures of earlier runs that have settled are garbage.
Trigger ==
    /\ pc \in {"idle", "aborted"}
    /\ run < cycles
    /\ pc' = "loadAllMakes"
    /\ run' = run + 1
    /\ storeBefore' = store
    /\ touched' = FALSE
    /\ shellsFailed' = FALSE
    /\ makesMap' = Append(makesMap, <<>>)
    /\ returned' = Append(returned, <<>>)
    /\ ops' = {t \in ops : t.st \in {"fetching", "fetched"}}
    /\ UNCHANGED <<store, remote, cycles, allMakes, hasMakes, dbMakes, deleting,
                   order, i, promises, failures, snapshots>>

\* _loadAllMakes: the response of _readMakesFromAPI arrives (or axios or
\* xml2js reject), _extractMakeObjects runs and _saveMakes issues db.find
LoadAllMakes ==
    /\ pc = "loadAllMakes"
    /\ \/ /\ CanFail
          /\ failures' = failures + 1
          /\ Abort
       \/ /\ UNCHANGED failures
          /\ LET r == extractMakeObjects(xml2Json(remote.makes))
             IN  IF r.kind = "throw" THEN Abort
                 ELSE /\ allMakes' = r.value
                      /\ hasMakes' = (r.kind = "value")
                      /\ pc' = "saveMakes"
                      /\ UNCHANGED <<dbMakes, deleting, order, i, promises>>
    /\ UNCHANGED <<store, remote, cycles, run, makesMap, ops, storeBefore, touched,
                   shellsFailed, snapshots, returned>>

\* the makeIds _saveMakes calls deleteOne for: those of the snapshot that
\* remoteMakesMap does not hold
StaleIds(snapshot, remoteMakes) ==
    LET stale == SelectSeq(snapshot, LAMBDA make : make.makeId \notin KeysOf(remoteMakes))
    IN  [j \in 1..Len(stale) |-> stale[j].makeId]

\* _saveMakes: db.find settles (an error is caught by the facade, which
\* returns []), the two maps are built (arrayToMap throws on undefined)
\* and the deleteOne calls of the stale makes are issued
Find ==
    /\ pc = "saveMakes"
    /\ \E ok \in BOOLEAN :
          /\ ok \/ CanFail
          /\ failures' = IF ok THEN failures ELSE failures + 1
          /\ IF arrayToMapThrows(hasMakes) THEN Abort
             ELSE /\ dbMakes' = IF ok THEN store ELSE <<>>
                  /\ deleting' = StaleIds(dbMakes', allMakes)
                  /\ pc' = "deleting"
                  /\ UNCHANGED <<allMakes, hasMakes, order, i, promises>>
          /\ shellsFailed' = ~ok
    /\ UNCHANGED <<store, remote, cycles, run, makesMap, ops, storeBefore, touched,
                   snapshots, returned>>

Remove(seq, j) == SubSeq(seq, 1, j - 1) \o SubSeq(seq, j + 1, Len(seq))

\* one db.deleteOne of the Promise.all settles (an error is caught by the
\* facade, which returns false)
DeleteOne ==
    /\ pc = "deleting"
    /\ \E j \in 1..Len(deleting), ok \in BOOLEAN :
          /\ ok \/ CanFail
          /\ failures' = IF ok THEN failures ELSE failures + 1
          /\ store' = IF ok THEN deleteOne(store, deleting[j]) ELSE store
          /\ deleting' = Remove(deleting, j)
          /\ shellsFailed' = (shellsFailed \/ ~ok)
    /\ touched' = TRUE
    /\ UNCHANGED <<remote, cycles, pc, run, allMakes, hasMakes, dbMakes, makesMap, order,
                   i, promises, ops, storeBefore, snapshots, returned>>

\* _saveMakes without its merge rule
MergeRuleNone(make, dbMakesMap) == make

\* the merge rule of _saveMakes: delete make.vehicleTypes when the snapshot
\* holds types for the make and the remote make has none
MergeRule(make, dbMakesMap) ==
    IF /\ make.makeId \in DOMAIN dbMakesMap
       /\ "vehicleTypes" \in DOMAIN dbMakesMap[make.makeId]
       /\ Len(dbMakesMap[make.makeId].vehicleTypes) > 0
       /\ "vehicleTypes" \in DOMAIN make
       /\ Len(make.vehicleTypes) = 0
    THEN [f \in (DOMAIN make) \ {"vehicleTypes"} |-> make[f]]
    ELSE make

\* makesToSave: remoteMakes.map over the merge rule (the makes themselves
\* are changed)
makesToSave(remoteMakes, snapshot) ==
    [j \in 1..Len(remoteMakes) |-> MergeRule(remoteMakes[j], arrayToMap(snapshot))]

\* _saveMakes: every deleteOne has settled, makesToSave is computed and
\* db.insertOrUpdateMany settles: the bulkWrite applied all of its
\* operations, or stopped at the first that failed (the facade catches the
\* error and returns [])
InsertOrUpdateMany ==
    /\ pc = "deleting"
    /\ deleting = <<>>
    /\ allMakes' = makesToSave(allMakes, dbMakes)
    /\ \E n \in 0..Len(allMakes) :
          /\ (n = Len(allMakes)) \/ CanFail
          /\ failures' = IF n = Len(allMakes) THEN failures ELSE failures + 1
          /\ store' = bulkWrite(store, allMakes', n)
          /\ shellsFailed' = (shellsFailed \/ n < Len(allMakes))
    /\ touched' = TRUE
    /\ pc' = "loadTypes"
    /\ UNCHANGED <<remote, cycles, run, hasMakes, dbMakes, deleting, makesMap, order, i,
                   promises, ops, storeBefore, snapshots, returned>>

\* the readAndSave() of run r for the make at position idx of allMakes
Task(r, idx) == CHOOSE t \in ops : t.run = r /\ t.idx = idx

\* what one synchronous stretch of the for loop of _loadAndSaveVehicleTypes
\* leaves: every make of `rest` (positions of allMakes, in shuffled order)
\* gets its readAndSave() started, which issues the request, until promises
\* holds more than CONCURRENT_REQUESTS tasks, the test limit breaks the
\* loop, or the list is exhausted
RECURSIVE Iterate(_, _, _, _)
Iterate(rest, proms, tasks, cnt) ==
    IF rest = <<>>
    THEN [pc |-> "return", order |-> rest, promises |-> proms, ops |-> tasks, i |-> cnt]
    ELSE LET make == allMakes[Head(rest)]
             task == [run |-> run, idx |-> Head(rest), make |-> make,
                      st |-> "fetching", updatedMake |-> make]
             tasks2 == tasks \cup {task}
             proms2 == proms \cup {Head(rest)}
         IN  IF Cardinality(proms2) > CONCURRENT_REQUESTS
             THEN [pc |-> "awaitAll", order |-> Tail(rest), promises |-> proms2,
                   ops |-> tasks2, i |-> cnt]
             ELSE IF cnt = TEST_REQUESTS
             THEN [pc |-> "return", order |-> Tail(rest), promises |-> proms2,
                   ops |-> tasks2, i |-> cnt + 1]
             ELSE Iterate(Tail(rest), proms2, tasks2, cnt + 1)

\* the loop runs on from `rest`; when it ends _loadAndSaveVehicleTypes and
\* startLoading return and scheduledFunction calls the self check
Resume(r) ==
    /\ order' = r.order
    /\ promises' = r.promises
    /\ ops' = r.ops
    /\ i' = r.i
    /\ IF r.pc = "return"
       THEN /\ pc' = "selfCheck"
            /\ snapshots' = Append(snapshots, store)
            /\ returned' = [returned EXCEPT ![run] = mapToArray(makesMap'[run])]
       ELSE /\ pc' = "awaitAll"
            /\ UNCHANGED <<snapshots, returned>>

RunLoop(rest, cnt) == Resume(Iterate(rest, promises, ops, cnt))

\* _loadAndSaveVehicleTypes when shuffle returns `shuffled`: makesMap, and
\* the loop up to its first await
LoadAndSaveVehicleTypesWith(shuffled) ==
    /\ pc = "loadTypes"
    /\ makesMap' = [makesMap EXCEPT ![run] = arrayToMap(allMakes)]
    /\ Resume(Iterate(shuffled, promises, ops, 0))
    /\ UNCHANGED <<store, remote, cycles, run, allMakes, hasMakes, dbMakes, deleting,
                   failures, storeBefore, touched, shellsFailed>>

\* _loadAndSaveVehicleTypes: the shuffle of [...allMakes] is an array of
\* references to the makes: here their positions in allMakes
LoadAndSaveVehicleTypes ==
    /\ pc = "loadTypes"
    /\ \E shuffled \in shuffle([j \in 1..Len(allMakes) |-> j]) :
          LoadAndSaveVehicleTypesWith(shuffled)

\* a readAndSave() that would settle only when its save went through
SettledOnSuccess(t) == t.st = "saved"

\* a readAndSave() has settled: its fetch failed, or its save has settled
Settled(t) == t.st \in {"failed", "saved", "saveFailed"}

\* a loop that clears promises without waiting for them
AwaitAllNoBarrier ==
    /\ pc = "awaitAll"
    /\ promises' = {}
    /\ pc' = "sleep"
    /\ UNCHANGED <<store, remote, cycles, run, allMakes, hasMakes, dbMakes, deleting,
                   makesMap, order, i, ops, failures, storeBefore, touched,
                   shellsFailed, snapshots, returned>>

\* await Promise.all(promises) resumes; promises = []
AwaitAll ==
    /\ pc = "awaitAll"
    /\ \A idx \in promises : Settled(Task(run, idx))
    /\ promises' = {}
    /\ pc' = "sleep"
    /\ UNCHANGED <<store, remote, cycles, run, allMakes, hasMakes, dbMakes, deleting,
                   makesMap, order, i, ops, failures, storeBefore, touched,
                   shellsFailed, snapshots, returned>>

\* the timer of the pause fires; `if (i++ === TEST_REQUESTS) break` and the
\* loop goes on
Sleep ==
    /\ pc = "sleep"
    /\ UNCHANGED <<store, remote, cycles, run, allMakes, hasMakes, dbMakes, deleting,
                   makesMap, failures, storeBefore, touched, shellsFailed>>
    /\ IF i = TEST_REQUESTS THEN RunLoop(<<>>, i + 1) ELSE RunLoop(order, i + 1)

\* the task t with its state and its updatedMake replaced
With(t, st, updatedMake) == [t EXCEPT !.st = st, !.updatedMake = updatedMake]

\* readAndSave without its try/catch: the rejection reaches
\* Promise.all or goes unhandled, and the run is over
ReadVehicleTypesUncaught(t) ==
    /\ t.st = "fetching"
    /\ \/ /\ CanFail
          /\ failures' = failures + 1
          /\ ops' = (ops \ {t}) \cup {With(t, "failed", t.updatedMake)}
          /\ IF t.run = run /\ pc \in {"awaitAll", "sleep"}
             THEN Abort ELSE UNCHANGED <<pc, allMakes, hasMakes, dbMakes, deleting,
                                        order, i, promises>>
          /\ UNCHANGED makesMap
       \/ /\ UNCHANGED failures
          /\ LET id == t.make.makeId
                 r == extractVehicleTypeObjects(xml2Json(remote.types[id]))
                 updatedMake == [vehicleTypes |-> r.value] @@ makesMap[t.run][id]
             IN  /\ ops' = (ops \ {t}) \cup {With(t, "fetched", updatedMake)}
                 /\ makesMap' = [makesMap EXCEPT ![t.run][id] = updatedMake]
          /\ UNCHANGED <<pc, allMakes, hasMakes, dbMakes, deleting, order, i, promises>>
    /\ UNCHANGED <<store, remote, cycles, run, storeBefore, touched, shellsFailed,
                   snapshots, returned>>

\* readAndSave: the response of _readVehicleTypesFromAPI arrives (or axios
\* or xml2js reject: the catch logs it); updatedMake is put in the makesMap
\* of the call and _saveVehicleTypes issues the upsert
ReadVehicleTypes(t) ==
    /\ t.st = "fetching"
    /\ \/ /\ CanFail
          /\ failures' = failures + 1
          /\ ops' = (ops \ {t}) \cup {With(t, "failed", t.updatedMake)}
          /\ UNCHANGED makesMap
       \/ /\ UNCHANGED failures
          /\ LET id == t.make.makeId
                 r == extractVehicleTypeObjects(xml2Json(remote.types[id]))
                 updatedMake == [vehicleTypes |-> r.value] @@ makesMap[t.run][id]
             IN  IF r.kind = "throw"
                 THEN /\ ops' = (ops \ {t}) \cup {With(t, "failed", t.updatedMake)}
                      /\ UNCHANGED makesMap
                 ELSE /\ ops' = (ops \ {t}) \cup {With(t, "fetched", updatedMake)}
                      /\ makesMap' = [makesMap EXCEPT ![t.run][id] = updatedMake]
    /\ UNCHANGED <<store, remote, cycles, pc, run, allMakes, hasMakes, dbMakes, deleting,
                   order, i, promises, storeBefore, touched, shellsFailed, snapshots, returned>>

\* readAndSave: db.insertOrUpdate of _saveVehicleTypes settles (an error is
\* caught by the facade, which returns null)
SaveVehicleTypes(t) ==
    /\ t.st = "fetched"
    /\ \E ok \in BOOLEAN :
          /\ ok \/ CanFail
          /\ failures' = IF ok THEN failures ELSE failures + 1
          /\ store' = IF ok THEN updateOneUpsert(store, t.updatedMake) ELSE store
          /\ ops' = (ops \ {t}) \cup
                    {With(t, IF ok THEN "saved" ELSE "saveFailed", t.updatedMake)}
    /\ touched' = (touched \/ t.run = run)
    /\ UNCHANGED <<remote, cycles, pc, run, allMakes, hasMakes, dbMakes, deleting,
                   makesMap, order, i, promises, storeBefore, shellsFailed, snapshots, returned>>

ReadAndSave == \E t \in ops : ReadVehicleTypes(t) \/ SaveVehicleTypes(t)

\* the comparison of testTheMakesDataTransform: the remote Count against
\* the number of documents getAllMakes read
TestPassed(makesInDB) == xml2Json(remote.makes).Count = Len(makesInDB)

\* testTheMakesDataTransform settles: it has logged its verdict, or
\* _readMakesFromAPI rejected; scheduledFunction is over
TestTheMakesDataTransform ==
    /\ pc = "selfCheck"
    /\ \/ /\ CanFail
          /\ failures' = failures + 1
       \/ /\ UNCHANGED failures
          /\ TestPassed(store) \in BOOLEAN
    /\ pc' = "idle"
    /\ LocalsReset
    /\ UNCHANGED <<store, remote, cycles, run, makesMap, ops, storeBefore, touched,
                   shellsFailed, snapshots, returned>>

Next ==
    \/ Trigger
    \/ LoadAllMakes
    \/ Find
    \/ DeleteOne
    \/ InsertOrUpdateMany
    \/ LoadAndSaveVehicleTypes
    \/ AwaitAll
    \/ Sleep
    \/ ReadAndSave
    \/ TestTheMakesDataTransform

Spec == Init /\ [][Next]_vars

----------------------------------------------------------------------------
(* The properties *)

\* the makeIds of the documents of a collection
Ids(coll) == KeysOf(coll)

\* the vehicleTypes the collection holds for id (none when the first
\* matching document has no such field)
TypesIn(coll, id) ==
    LET doc == coll[First(Matches(coll, id))]
    IN  IF "vehicleTypes" \in DOMAIN doc THEN doc.vehicleTypes ELSE <<>>

\* the record of id in `array` carries types
HasTypes(array, id) == id \in Ids(array) /\ Len(TypesIn(array, id)) > 0

\* a step of _saveMakes that writes to the store: a deleteOne or the bulk
\* upsert settles
ReconcileStep == pc = "deleting" /\ (pc' = "loadTypes" \/ deleting' # deleting)

\* the readAndSave() calls of the current run
Tasks == {t \in ops : t.run = run}

C2_NeverOverwrittenWithEmpty ==
    [][\A id \in Ids(store) :
          (HasTypes(store, id) /\ id \in Ids(store') /\ ~HasTypes(store', id))
          => \E t \in Tasks :
                /\ t.make.makeId = id
                /\ t.st = "fetched"
                /\ t.updatedMake.vehicleTypes = <<>>]_vars

\* C3: deletion correctness.  When _saveMakes has completed, a makeId that
\* was in the store and is absent from the fetched list has no record, and
\* a makeId that is in both still has one.
C3_DeletionCorrectness ==
    pc = "loadTypes" =>
        \A id \in Ids(storeBefore) :
            IF id \in Ids(allMakes) THEN id \in Ids(store) ELSE id \notin Ids(store)

InFlight == {t \in Tasks : ~Settled(t)}

\* C5: concurrency cap.  Never more than CONCURRENT_REQUESTS fetch-and-
\* persist operations of Load-Types are in flight.
C5_ConcurrencyCap == Cardinality(InFlight) <= CONCURRENT_REQUESTS

\* C6: partial-failure isolation.  Once the type loader of a run has
\* started, the run ends only with every make of the fetched list
\* attempted, whichever of them failed; and a make whose own fetch and save
\* succeeded is stored with its fetched vehicleTypes.
C6_PartialFailureIsolation ==
    /\ (Tasks # {} /\ pc \in {"selfCheck", "idle", "aborted"})
       => \A idx \in 1..Len(remote.makes) : \E t \in Tasks : t.idx = idx
    /\ \A t \in Tasks :
          t.st = "saved"
          => /\ t.make.makeId \in Ids(store)
             /\ TypesIn(store, t.make.makeId) = t.updatedMake.vehicleTypes

\* a run is over in which one make failed and another was saved with types
C6_Witness ==
    /\ pc = "idle"
    /\ \E t1, t2 \in Tasks :
          /\ t1.st = "failed"
          /\ t2.st = "saved"
          /\ t2.make.makeId # t1.make.makeId
          /\ Len(t2.updatedMake.vehicleTypes) > 0
          /\ TypesIn(store, t2.make.makeId) = t2.updatedMake.vehicleTypes

\* the documents of a snapshot, whatever their order
Records(coll) == {coll[j] : j \in 1..Len(coll)}

\* C7: idempotence.  Without failures and with the remote source
\* unchanged, the store after the second return of startLoading holds the
\* records it held after the first.
C7_Idempotence ==
    (Len(snapshots) >= 2 /\ failures = 0)
    => Records(snapshots[2]) = Records(snapshots[1])

\* the scheduled function is over and every readAndSave() has settled
Finished == pc = "idle" /\ run > 0 /\ \A t \in ops : Settled(t)

\* the fetch of the task succeeded and its save went through
Fetched(t) == t.st = "saved"

\* C8: end-of-cycle store content.  When a cycle has finished (the scheduled
\* function is over and no readAndSave() is in flight), a make whose type
\* fetch succeeded and was saved is stored with the fetched types, a make
\* whose fetch failed with the types stored before the cycle (none when it
\* is new), and no make absent from the fetched list has a record.
C8_EndOfCycleContent ==
    Finished =>
        /\ \A t \in Tasks :
              /\ t.make.makeId \in Ids(store)
              /\ Fetched(t)
                 => TypesIn(store, t.make.makeId) = t.updatedMake.vehicleTypes
              /\ (\A u \in Tasks : u.make.makeId = t.make.makeId => u.st = "failed")
                 => TypesIn(store, t.make.makeId) =
                       IF t.make.makeId \in Ids(storeBefore)
                       THEN TypesIn(storeBefore, t.make.makeId) ELSE <<>>
        /\ \A id \in Ids(store) : \E j \in 1..Len(remote.makes) : remote.makes[j].Make_ID = id

\* C9: a failure of Fetch-Makes is fatal and leaves the store untouched.  A
\* list that is undefined never gets past the maps of _saveMakes; a run
\* that aborted has had no delete and no upsert settle and has started no
\* readAndSave(); and, no operation of an earlier run being in flight, the
\* store is the one the run found.
C9_FetchMakesFailureIsFatal ==
    /\ ~hasMakes => pc = "saveMakes"
    /\ pc = "aborted"
       => /\ ~touched
          /\ Tasks = {}
          /\ ops = {} => store = storeBefore

\* the upstream document held no list of makes (no failure was injected):
\* the run aborted on a store that holds records, and left them
C9_Witness ==
    /\ pc = "aborted"
    /\ failures = 0
    /\ ops = {}
    /\ Len(store) > 0
    /\ store = storeBefore

\* C10: a failure of Persist-Shells is fatal and leaves the store
\* untouched.  Once a store operation of _saveMakes has failed, the run
\* goes no further than _saveMakes, starts no readAndSave(), and ends
\* aborted with the store it found.
C10_PersistShellsFailureIsFatal ==
    shellsFailed
    => /\ pc \in {"saveMakes", "deleting", "aborted"}
       /\ Tasks = {}
       /\ pc = "aborted" => store = storeBefore

\* the VehicleTypes an upstream document with the nested records `children`
\* stands for: one per record, in source order
TypesOf(children) ==
    [j \in 1..Len(children) |->
        [typeId |-> children[j].VehicleTypeId, typeName |-> children[j].VehicleTypeName]]

\* C11: edge-case extraction.  For every types document of the upstream
\* source (count 0, count 1 with a single nested record that is no list,
\* count n > 1 with a list), _extractVehicleTypeObjects returns the
\* VehicleTypes of its records in source order, and a readAndSave() whose
\* fetch succeeded carries exactly them.
C11_EdgeCaseExtraction ==
    /\ \A id \in DOMAIN remote.types :
          LET r == extractVehicleTypeObjects(xml2Json(remote.types[id]))
          IN  r.kind = "value" /\ r.value = TypesOf(remote.types[id])
    /\ \A t \in ops :
          t.st \in {"fetched", "saved", "saveFailed"}
          => t.updatedMake.vehicleTypes = TypesOf(remote.types[t.make.makeId])

\* three fetches have succeeded, on documents of count 0, 1 and more
C11_Witness ==
    \E t0, t1, tn \in ops :
        /\ \A t \in {t0, t1, tn} : t.st \in {"fetched", "saved"}
        /\ xml2Json(remote.types[t0.make.makeId]).Count = 0
        /\ t0.updatedMake.vehicleTypes = <<>>
        /\ xml2Json(remote.types[t1.make.makeId]).Results.kind = "object"
        /\ Len(t1.updatedMake.vehicleTypes) = 1
        /\ xml2Json(remote.types[tn.make.makeId]).Results.kind = "array"
        /\ Len(tn.updatedMake.vehicleTypes) > 1

\* the run's call of _loadAndSaveVehicleTypes has returned
Returned == run > 0 /\ pc \in {"selfCheck", "idle"}

\* the Make the returned collection holds for id
ReturnedMake(id) ==
    returned[run][CHOOSE j \in 1..Len(returned[run]) : returned[run][j].makeId = id]

\* the vehicleTypes of a make (undefined when the field was deleted)
TypesOfMake(make) ==
    IF "vehicleTypes" \in DOMAIN make THEN make.vehicleTypes ELSE <<"undefined">>

\* C12: type-loader result.  The collection _loadAndSaveVehicleTypes
\* returned has one Make per distinct makeId of its input; a make whose type
\* fetch succeeded in this cycle is returned with its fetched vehicleTypes,
\* and a make whose fetch failed with the vehicleTypes the map held for it.
C12_TypeLoaderResult ==
    Returned =>
        /\ Len(returned[run]) = Cardinality(KeysOf(allMakes))
        /\ \A id \in KeysOf(allMakes) : \E j \in 1..Len(returned[run]) : returned[run][j].makeId = id
        /\ \A t \in Tasks :
              /\ t.st \in {"fetched", "saved", "saveFailed"}
                 => TypesOfMake(ReturnedMake(t.make.makeId)) = t.updatedMake.vehicleTypes
              /\ (\A u \in Tasks : u.make.makeId = t.make.makeId => u.st = "failed")
                 => TypesOfMake(ReturnedMake(t.make.makeId)) = TypesOfMake(t.make)

\* the documents the store holds when it mirrors the upstream source: one
\* per makeId of the list, with its (last) name and its upstream types
RemoteImage ==
    {[makeId |-> id,
      makeName |-> arrayToMap(extractMakeObjects([Count |-> Len(remote.makes),
                     Results |-> [kind |-> "array", items |-> remote.makes]]).value)[id].makeName,
      vehicleTypes |-> TypesOf(remote.types[id])] :
        id \in {remote.makes[j].Make_ID : j \in 1..Len(remote.makes)}}

\* the store holds exactly the remote makes, each with its remote types
Converged == Records(store) = RemoteImage /\ Len(store) = Cardinality(RemoteImage)

\* a cycle is over: the scheduled function has settled and so has every
\* readAndSave()
CycleOver == run > 0 /\ pc \in {"idle", "aborted"} /\ \A t \in ops : Settled(t)

\* C13: eventual convergence.  Against a source that lists makes, a cycle is
\* a fresh attempt on the whole list: it aborts only on a failure, and when
\* none of its operations failed it ends with the store holding exactly the
\* remote makes, each with its remote vehicleTypes (so the cycle that
\* follows the last failure converges).
C13_EventualConvergence ==
    (CycleOver /\ Len(remote.makes) >= 1) =>
        /\ pc = "aborted" => failures > 0
        /\ (pc = "idle" /\ ~shellsFailed /\ \A t \in Tasks : t.st = "saved") => Converged

\* the run is in Fetch-Makes or in Persist-Shells
BeforeLoadTypes == pc \in {"loadAllMakes", "saveMakes", "deleting"}

\* C14: phase ordering.  Within a run no readAndSave() is started while the
\* run is still in _loadAllMakes or _saveMakes (a delete or the bulk upsert
\* outstanding), and a make whose types are about to be persisted has a
\* document in the store.
C14_PhaseOrdering ==
    /\ BeforeLoadTypes => Tasks = {}
    /\ Tasks # {} => deleting = <<>>
    /\ \A t \in Tasks : t.st = "fetched" => t.make.makeId \in Ids(store)

\* C15: run completion means no work in flight.  When the scheduled function
\* (startLoading, then the self check) has settled, none of its
\* readAndSave() calls is pending, and a readAndSave() that is pending
\* belongs to the run in progress: the operations of two successive cycles
\* never interleave.
C15_NoWorkInFlight ==
    /\ (run > 0 /\ pc \in {"idle", "aborted"}) => \A t \in ops : Settled(t)
    /\ \A t \in ops : ~Settled(t) => t.run = run

\* the readAndSave() calls a set of tasks stands for
Started(tasks) == {<<t.run, t.idx>> : t \in tasks}

\* C16: group barrier and pacing.  In a run of the type loader, a
\* readAndSave() is started after earlier ones of the run only by the step
\* that ends the pause, and then every earlier one of the run has settled;
\* while the loader waits, the only tasks of the run not settled are those
\* of the group it waits for.
C16_GroupBarrier ==
    [][/\ (Started(ops') \ Started(ops) # {} /\ Tasks # {})
          => (pc = "sleep" /\ \A t \in Tasks : Settled(t))
       /\ pc \in {"awaitAll", "sleep"}
          => \A t \in Tasks : ~Settled(t) => t.idx \in promises]_vars

\* the loader has started its second group: the first has settled
C16_Witness ==
    /\ Cardinality(Tasks) > CONCURRENT_REQUESTS + 1
    /\ \E t \in Tasks : ~Settled(t)
    /\ \E t \in Tasks : t.st = "saved"

\* the positions of the fetched list for which the run has started a
\* readAndSave()
Attempted == {t.idx : t \in Tasks}

\* C17: exactly one attempt per make per cycle.  Every iteration of the loop
\* starts a readAndSave() for a position of the list that had none (so none
\* is fetched twice, whatever the shuffle drew), a task that failed is never
\* started again, the shuffle yields permutations only, and a run whose type
\* loader has returned has attempted every position of the list.
C17_ExactlyOneAttempt ==
    [][/\ Started(ops') \ Started(ops) # {}
          => Cardinality(Started(ops') \ Started(ops))
                = (IF pc = "loadTypes" THEN Len(allMakes) ELSE Len(order)) - Len(order')
       /\ \A t \in ops : \A u \in ops' :
             (t.st = "failed" /\ u.run = t.run /\ u.idx = t.idx) => u.st = "failed"
       /\ (pc # "loadTypes" /\ pc' = "loadTypes")
          => \A s \in shuffle([j \in 1..Len(allMakes') |-> j]) :
                {s[j] : j \in 1..Len(s)} = 1..Len(allMakes')
       /\ (run' > 0 /\ pc' \in {"selfCheck", "idle"})
          => Attempted' = 1..Len(remote.makes)]_vars

\* a run is over in which a fetch failed: every make was attempted, once
C17_Witness ==
    /\ pc = "idle"
    /\ \E t \in Tasks : t.st = "failed"
    /\ Cardinality(Tasks) = Len(remote.makes)
    /\ Cardinality(Tasks) > CONCURRENT_REQUESTS

\* every request and every store operation that is outstanding completes in
\* the end, with success or failure, and the event loop runs what is ready.
\* The continuation of `await this._saveMakes` is enabled exactly when pc is
\* "loadTypes" and any draw of the shuffle leaves that state, so fairness on
\* one draw says that the continuation runs.
Fairness ==
    /\ WF_vars(LoadAllMakes)
    /\ WF_vars(Find)
    /\ WF_vars(DeleteOne)
    /\ WF_vars(InsertOrUpdateMany)
    /\ WF_vars(LoadAndSaveVehicleTypesWith([j \in 1..Len(allMakes) |-> j]))
    /\ WF_vars(AwaitAll)
    /\ WF_vars(Sleep)
    /\ WF_vars(ReadAndSave)
    /\ WF_vars(TestTheMakesDataTransform)

FairSpec == Spec /\ Fairness

\* the scheduled function is running
Running == pc \notin {"idle", "aborted"}

\* C18: termination.  Provided every fetch and every store operation
\* completes in the end, a run that has started reaches its terminal state:
\* the scheduled function settles and control is back with the trigger.
C18_Termination == Running ~> ~Running

\* the last run of a list of several groups is over, a failure included
C18_Witness ==
    /\ ~Running
    /\ run = cycles
    /\ failures > 0
    /\ Len(remote.makes) > CONCURRENT_REQUESTS
    /\ Cardinality(Tasks) = Len(remote.makes)

\* the documents of a collection whose makeId is not id
Others(coll, id) == SelectSeq(coll, LAMBDA doc : doc.makeId # id)

\* C19: per-make persistence frame.  The step in which the upsert of a
\* readAndSave() settles leaves every document with another makeId as it
\* was, in place; and a cycle in which nothing failed ends with the same
\* documents whatever the order in which its tasks completed.
C19_PerMakeFrame ==
    [][/\ \A t \in ops :
             (t.st = "fetched" /\ t \notin ops')
             => Others(store', t.make.makeId) = Others(store, t.make.makeId)
       /\ (Finished' /\ failures' = 0) => Records(store') = RemoteImage]_vars

\* the types of one make have been saved next to a document of another make
\* that holds types
C19_Witness ==
    \E t \in Tasks :
        /\ t.st = "saved"
        /\ Len(t.updatedMake.vehicleTypes) > 0
        /\ \E id \in Ids(store) : id # t.make.makeId /\ HasTypes(store, id)

\* the list of makes as _loadAllMakes returned it
FetchedMakes == extractMakeObjects(xml2Json(remote.makes)).value

\* C20: reconciliation has no side effect on its input.  When _saveMakes has
\* completed, the list startLoading hands to _loadAndSaveVehicleTypes is the
\* list that was fetched: every Make has its makeId, its makeName and its
\* vehicleTypes.
C20_NoSideEffectOnInput ==
    pc = "loadTypes" => allMakes = FetchedMakes

\* the step in which _saveMakes commits: its bulk upsert settles
Commit == pc = "deleting" /\ pc' = "loadTypes"

\* C21: the store mirrors the remote list after Persist-Shells.  When
\* _saveMakes commits and none of its store operations failed, the makeIds
\* of the store are those of the fetched list, every stored makeName is the
\* fetched one (also where the merge rule kept the vehicleTypes), a make the
\* snapshot did not hold is stored with an empty vehicleTypes, and with
\* distinct remote makeIds the store has as many documents as the remote
\* Count of the self check.
C21_StoreMirrorsRemoteList ==
    [][(Commit /\ ~shellsFailed') =>
          /\ Ids(store') = KeysOf(FetchedMakes)
          /\ \A j \in 1..Len(store') :
                store'[j].makeName = arrayToMap(FetchedMakes)[store'[j].makeId].makeName
          /\ \A id \in Ids(store') \ Ids(dbMakes) : TypesIn(store', id) = <<>>
          /\ Cardinality(KeysOf(FetchedMakes)) = Len(FetchedMakes) => TestPassed(store')]_vars

\* _saveMakes has committed without a failure: a stale make is gone, a new
\* one is stored as a shell and a kept one still has its types
C21_Witness ==
    /\ pc = "loadTypes"
    /\ ~shellsFailed
    /\ Ids(storeBefore) \ Ids(store) # {}
    /\ \E id \in Ids(store) \ Ids(storeBefore) : TypesIn(store, id) = <<>>
    /\ \E id \in Ids(store) \cap Ids(storeBefore) : HasTypes(store, id)
    /\ TestPassed(store)

----------------------------------------------------------------------------
(* The signal handler of app.js *)

\* gracefulShutdown on SIGINT or SIGTERM (the handlers are registered once
\* doBeforeStart has resolved, i.e. after task.execute() has started the
\* first run): scheduler.stop(), server.close(), process.exit().  The
\* process is gone: whatever was pending stays as it was.
GracefulShutdown ==
    /\ run > 0
    /\ pc # "exited"
    /\ pc' = "exited"
    /\ UNCHANGED <<store, remote, cycles, run, allMakes, hasMakes, dbMakes, deleting,
                   makesMap, order, i, promises, ops, failures, storeBefore, touched,
                   shellsFailed, snapshots, returned>>

\* the service with its signal handler: nothing runs in a process that has
\* exited
NextWithShutdown ==
    \/ pc # "exited" /\ Next
    \/ GracefulShutdown

ShutdownSpec == Init /\ [][NextWithShutdown]_vars

\* C22: graceful shutdown drains in-flight work.  When the process exits on
\* a signal while the type loader waits for its group (or pauses after it),
\* every readAndSave() of that group has settled.
C22_ShutdownDrains ==
    [][(pc \in {"awaitAll", "sleep"} /\ pc' = "exited")
          => \A t \in Tasks : t.idx \in promises => Settled(t)]_vars

====
